---- MODULE Spec2Model ----
(***************************************************************************)
(* RePlate campus meal claiming: the food-item catalog, the claim          *)
(* lifecycle, the expiry sweeper and the donation transfer, as the request *)
(* handlers of server/routes.ts drive the storage layer of                 *)
(* server/storage.ts.  Time is counted in hours.                           *)
(***************************************************************************)
EXTENDS Integers, FiniteSets, Sequences, TLC

\* ------------------------------------------------------------------ bounds
MaxTime == 3
MaxQty == 2
MaxClaims == 2
MaxDonations == 2

\* ------------------------------------------------------- program constants
\* routes.ts: expiresAt.setHours(expiresAt.getHours() + 2)
ReservationWindow == 2
\* a nullable timestamp column that holds no value
NULL == -1

ItemIds == {1, 2}
\* the values of the connect.sid cookie
SessionIds == {"sid1", "sid2"}
\* the item the claim lifecycle is followed on
LifecycleItems == {1}
Codes == {1, 2}
Students == {"student1"}
Staff == {"staff1"}
Procs == {"p1", "p2"}
\* quantityClaimed is read from the request body as it comes
Quantities == {-1, 1, 2}
Deadlines == {2}

VARIABLES
    items,          \* food_items rows, by id
    claims,         \* food_claims rows
    donations,      \* food_donations rows
    nextClaimId,    \* ids handed to new claim rows
    nextDonationId, \* ids handed to new donation rows
    now,            \* wall clock
    resp,           \* the response of the last request handled
    pc,             \* position of each in-flight reserve request
    local,          \* the locals of each in-flight reserve request
    stocked,        \* history: quantity each item was created with
    touched,        \* history: item was edited or deleted by staff
    reservedOk,     \* history: sum of quantityClaimed of reserves answered 201
    sessions        \* the in-memory session store, by session id

vars == <<items, claims, donations, nextClaimId, nextDonationId, now, resp,
          pc, local, stocked, touched, reservedOk, sessions>>

NoItem == [state |-> "none", quantityAvailable |-> 0, availableUntil |-> 0,
           isActive |-> FALSE, createdBy |-> "nobody",
           originalPrice |-> 0, discountedPrice |-> 0]

\* the prices the items are listed at, as those of the demo items
ItemPrices ==
    <<[originalPrice |-> 250, discountedPrice |-> 180],
      [originalPrice |-> 195, discountedPrice |-> 130]>>

NoLocal == [userId |-> "nobody", foodItemId |-> 0, quantityClaimed |-> 0,
            claimCode |-> 0, expiresAt |-> 0]

Response(op, status, ok, n) ==
    [op |-> op, status |-> status, ok |-> ok, n |-> n]

RECURSIVE SumQuantity(_)
SumQuantity(S) ==
    IF S = {} THEN 0
    ELSE LET c == CHOOSE x \in S : TRUE
         IN c.quantityClaimed + SumQuantity(S \ {c})

\* sessions[sessionId] of a key the store does not hold
NoSession == [stored |-> FALSE, user |-> "nobody"]
\* the object {} the middleware stores for a new session id
EmptySession == [stored |-> TRUE, user |-> "nobody"]

Init ==
    /\ sessions = [sid \in SessionIds |-> NoSession]
    /\ items = [i \in ItemIds |-> NoItem]
    /\ claims = {}
    /\ donations = {}
    /\ nextClaimId = 1
    /\ nextDonationId = 1
    /\ now = 0
    /\ resp = Response("none", 0, FALSE, 0)
    /\ pc = [p \in Procs |-> "idle"]
    /\ local = [p \in Procs |-> NoLocal]
    /\ stocked = [i \in ItemIds |-> 0]
    /\ touched = [i \in ItemIds |-> FALSE]
    /\ reservedOk = [i \in ItemIds |-> 0]

\* ------------------------------------------------------------------- clock
Tick ==
    /\ now < MaxTime
    /\ now' = now + 1
    /\ resp' = Response("tick", 0, FALSE, 0)
    /\ UNCHANGED <<sessions, items, claims, donations, nextClaimId, nextDonationId,
                   pc, local, stocked, touched, reservedOk>>

\* ----------------------------------------------------------------- catalog
\* storage.getFoodItemById
getFoodItemById(i) ==
    IF items[i].state = "live" THEN items[i] ELSE NoItem

\* POST /api/food-items -> storage.createFoodItem
CreateFoodItem(u, i, qty, until) ==
    /\ items[i].state = "none"
    /\ \A j \in ItemIds : j < i => items[j].state # "none"
    /\ items' = [items EXCEPT ![i] =
                    [state |-> "live", quantityAvailable |-> qty,
                     availableUntil |-> until, isActive |-> TRUE,
                     createdBy |-> u,
                     originalPrice |-> ItemPrices[i].originalPrice,
                     discountedPrice |-> ItemPrices[i].discountedPrice]]
    /\ stocked' = [stocked EXCEPT ![i] = qty]
    /\ resp' = Response("createFoodItem", 201, TRUE, 0)
    /\ UNCHANGED <<sessions, claims, donations, nextClaimId, nextDonationId, now,
                   pc, local, touched, reservedOk>>

\* ------------------------------------------------------------- reservation
\* POST /api/food-claims: the availability checks made on the item read
ReserveCheck(item, q, t) ==
    IF item.state # "live" \/ ~item.isActive THEN 404
    ELSE IF item.quantityAvailable < q THEN 400
    ELSE IF t >= item.availableUntil THEN 400
    ELSE 201

\* ExpiresAt with the window left out
ExpiresAtNoWindow(t) ==
    t

\* POST /api/food-claims: expiresAt, two hours from the request
ExpiresAt(t) ==
    t + ReservationWindow

\* POST /api/food-claims: claimData, and the defaults of the table's columns
NewClaim(id, u, i, q, code, expiresAt) ==
    [id |-> id, userId |-> u, foodItemId |-> i, quantityClaimed |-> q,
     claimCode |-> code, status |-> "reserved",
     expiresAt |-> expiresAt, claimedAt |-> NULL]

\* InsertAllowed without the uniqueness of the code
InsertAllowedNoUnique(i, code) ==
    items[i].state = "live"

\* InsertAllowed without the reference to the food item
InsertAllowedNoReference(i, code) ==
    \A c \in claims : c.claimCode # code

\* the constraints of food_claims an insert must meet
InsertAllowed(i, code) ==
    /\ items[i].state = "live"
    /\ \A c \in claims : c.claimCode # code

\* DecrementQuantity taking one unit whatever quantity was claimed
DecrementByOne(i, q) ==
    IF items[i].state = "live"
    THEN [items EXCEPT ![i].quantityAvailable = @ - 1]
    ELSE items

\* createFoodClaim: quantity_available - quantityClaimed, in the database
DecrementQuantity(i, q) ==
    IF items[i].state = "live"
    THEN [items EXCEPT ![i].quantityAvailable = @ - q]
    ELSE items

\* POST /api/food-claims handled with no other request in between
Reserve(u, i, q, code) ==
    /\ nextClaimId <= MaxClaims
    /\ LET st == ReserveCheck(getFoodItemById(i), q, now) IN
       IF st # 201
       THEN /\ resp' = Response("reserve", st, FALSE, 0)
            /\ UNCHANGED <<items, claims, nextClaimId, reservedOk>>
       ELSE IF ~InsertAllowed(i, code)
       THEN /\ resp' = Response("reserve", 500, FALSE, 0)
            /\ UNCHANGED <<items, claims, nextClaimId, reservedOk>>
       ELSE /\ claims' = claims \cup {NewClaim(nextClaimId, u, i, q, code, ExpiresAt(now))}
            /\ nextClaimId' = nextClaimId + 1
            /\ items' = DecrementQuantity(i, q)
            /\ reservedOk' = [reservedOk EXCEPT ![i] = @ + q]
            /\ resp' = Response("reserve", 201, TRUE, 0)
    /\ UNCHANGED <<sessions, donations, nextDonationId, now, pc, local, stocked, touched>>

\* ------------------------------------------------ reservation, step by step
\* the reserve requests that have read the item and not yet answered
InFlight ==
    {p \in Procs : pc[p] \in {"insert", "decrement"}}

\* POST /api/food-claims up to the call of createFoodClaim: the item is read
\* and checked, the code and the expiry are computed
ReserveRead(p, u, i, q, code) ==
    /\ pc[p] = "idle"
    /\ nextClaimId + Cardinality(InFlight) <= MaxClaims
    /\ LET st == ReserveCheck(getFoodItemById(i), q, now) IN
       IF st # 201
       THEN /\ resp' = Response("reserve", st, FALSE, 0)
            /\ UNCHANGED <<pc, local>>
       ELSE /\ pc' = [pc EXCEPT ![p] = "insert"]
            /\ local' = [local EXCEPT ![p] =
                            [userId |-> u, foodItemId |-> i,
                             quantityClaimed |-> q, claimCode |-> code,
                             expiresAt |-> ExpiresAt(now)]]
            /\ UNCHANGED resp
    /\ UNCHANGED <<sessions, items, claims, donations, nextClaimId, nextDonationId, now,
                   stocked, touched, reservedOk>>

\* createFoodClaim, first statement: the claim row is inserted
ReserveInsert(p) ==
    /\ pc[p] = "insert"
    /\ IF ~InsertAllowed(local[p].foodItemId, local[p].claimCode)
       THEN /\ resp' = Response("reserve", 500, FALSE, 0)
            /\ pc' = [pc EXCEPT ![p] = "idle"]
            /\ local' = [local EXCEPT ![p] = NoLocal]
            /\ UNCHANGED <<claims, nextClaimId>>
       ELSE /\ claims' = claims \cup
                    {NewClaim(nextClaimId, local[p].userId, local[p].foodItemId,
                              local[p].quantityClaimed, local[p].claimCode,
                              local[p].expiresAt)}
            /\ nextClaimId' = nextClaimId + 1
            /\ pc' = [pc EXCEPT ![p] = "decrement"]
            /\ UNCHANGED <<resp, local>>
    /\ UNCHANGED <<sessions, items, donations, nextDonationId, now, stocked, touched,
                   reservedOk>>

\* createFoodClaim, second statement: the item's quantity is decremented,
\* and the request is answered 201
ReserveDecrement(p) ==
    /\ pc[p] = "decrement"
    /\ items' = DecrementQuantity(local[p].foodItemId, local[p].quantityClaimed)
    /\ reservedOk' = [reservedOk EXCEPT ![local[p].foodItemId] =
                         @ + local[p].quantityClaimed]
    /\ resp' = Response("reserve", 201, TRUE, 0)
    /\ pc' = [pc EXCEPT ![p] = "idle"]
    /\ local' = [local EXCEPT ![p] = NoLocal]
    /\ UNCHANGED <<sessions, claims, donations, nextClaimId, nextDonationId, now,
                   stocked, touched>>

\* ---------------------------------------------------------- claim lifecycle
\* the value of an argument the caller left out
Undefined == NULL - 1

\* storage.getFoodClaimByClaimCode: the rows carrying the code
getFoodClaimByClaimCode(code) ==
    {c \in claims : c.claimCode = code}

\* storage.updateFoodClaimStatus: set({ status, claimedAt }) where id matches;
\* a key whose value is undefined is left out of the UPDATE
updateFoodClaimStatus(id, status, claimedAt) ==
    {IF c.id = id
     THEN [c EXCEPT !.status = status,
                    !.claimedAt = IF claimedAt = Undefined THEN @ ELSE claimedAt]
     ELSE c : c \in claims}

\* VerifyPasses without the comparison of the clock with expiresAt
VerifyPassesNoExpiry(c, t) ==
    c.status = "reserved"

\* the checks of POST /api/food-claims/verify on the claim read
VerifyPasses(c, t) ==
    /\ c.status = "reserved"
    /\ ~(t > c.expiresAt)

\* POST /api/food-claims/verify
Verify(code) ==
    /\ LET found == getFoodClaimByClaimCode(code) IN
       IF found = {}
       THEN resp' = Response("verify", 200, FALSE, 0)
       ELSE LET c == CHOOSE x \in found : TRUE IN
            resp' = Response("verify", 200, VerifyPasses(c, now), 0)
    /\ UNCHANGED <<sessions, items, claims, donations, nextClaimId, nextDonationId, now,
                   pc, local, stocked, touched, reservedOk>>

\* GET /api/food-claims/code/:claimCode
LookupByCode(code) ==
    /\ LET found == getFoodClaimByClaimCode(code) IN
       IF found = {}
       THEN /\ resp' = Response("lookupByCode", 404, FALSE, 0)
            /\ UNCHANGED claims
       ELSE LET c == CHOOSE x \in found : TRUE IN
            IF now > c.expiresAt
            THEN /\ claims' = updateFoodClaimStatus(c.id, "expired", Undefined)
                 /\ resp' = Response("lookupByCode", 400, FALSE, 0)
            ELSE /\ resp' = Response("lookupByCode", 200, TRUE, 0)
                 /\ UNCHANGED claims
    /\ UNCHANGED <<sessions, items, donations, nextClaimId, nextDonationId, now,
                   pc, local, stocked, touched, reservedOk>>

\* PUT /api/food-claims/:id/claim (the id in the path is the claim code)
ClaimByCode(code) ==
    /\ LET found == getFoodClaimByClaimCode(code) IN
       IF found = {}
       THEN /\ resp' = Response("claimByCode", 404, FALSE, 0)
            /\ UNCHANGED claims
       ELSE LET c == CHOOSE x \in found : TRUE IN
            IF c.status # "reserved"
            THEN /\ resp' = Response("claimByCode", 400, FALSE, 0)
                 /\ UNCHANGED claims
            ELSE IF now > c.expiresAt
            THEN /\ claims' = updateFoodClaimStatus(c.id, "expired", Undefined)
                 /\ resp' = Response("claimByCode", 400, FALSE, 0)
            ELSE /\ claims' = updateFoodClaimStatus(c.id, "claimed", now)
                 /\ resp' = Response("claimByCode", 200, TRUE, 0)
    /\ UNCHANGED <<sessions, items, donations, nextClaimId, nextDonationId, now,
                   pc, local, stocked, touched, reservedOk>>

\* storage.completeClaim: the unconditional status update
completeClaim(id) ==
    updateFoodClaimStatus(id, "claimed", now)

\* POST /api/food-claims/:id/complete
Complete(id) ==
    /\ claims' = completeClaim(id)
    /\ resp' = IF \E c \in claims : c.id = id
               THEN Response("complete", 200, TRUE, 0)
               ELSE Response("complete", 500, FALSE, 0)
    /\ UNCHANGED <<sessions, items, donations, nextClaimId, nextDonationId, now,
                   pc, local, stocked, touched, reservedOk>>

\* ------------------------------------------------- claim listings, stats
\* storage.getFoodClaimsByUser: the rows selected
getFoodClaimsByUser(u) ==
    {c \in claims : c.userId = u}

\* GET /api/food-claims/my
ListByUser(u) ==
    /\ resp' = Response("listByUser", 200, TRUE,
                        Cardinality(getFoodClaimsByUser(u)))
    /\ UNCHANGED <<sessions, items, claims, donations, nextClaimId, nextDonationId, now,
                   pc, local, stocked, touched, reservedOk>>

\* storage.getActiveFoodClaims: the rows selected
getActiveFoodClaims(t) ==
    {c \in claims : c.status = "reserved" /\ c.expiresAt >= t}

\* storage.getActiveFoodClaims, called on its own
ListActiveReservations ==
    /\ resp' = Response("listActiveReservations", 200, TRUE,
                        Cardinality(getActiveFoodClaims(now)))
    /\ UNCHANGED <<sessions, items, claims, donations, nextClaimId, nextDonationId, now,
                   pc, local, stocked, touched, reservedOk>>

\* ClaimSavings without the quantity of the claim
ClaimSavingsPerClaim(its, c) ==
    IF its[c.foodItemId].state = "live"
    THEN its[c.foodItemId].originalPrice - its[c.foodItemId].discountedPrice
    ELSE 0

\* getCampusStats: the term a claimed claim, joined to its item, adds to the
\* sum; a claim that joins no item adds nothing
ClaimSavings(its, c) ==
    IF its[c.foodItemId].state = "live"
    THEN (its[c.foodItemId].originalPrice - its[c.foodItemId].discountedPrice)
             * c.quantityClaimed
    ELSE 0

RECURSIVE SumSavings(_, _)
SumSavings(its, S) ==
    IF S = {} THEN 0
    ELSE LET c == CHOOSE x \in S : TRUE
         IN ClaimSavings(its, c) + SumSavings(its, S \ {c})

\* storage.getCampusStats: the two figures drawn from the claims
getCampusStats(its, cls) ==
    LET claimed == {c \in cls : c.status = "claimed"}
    IN [totalMealsSaved |-> Cardinality(claimed),
        totalSavings |-> SumSavings(its, claimed)]

\* GET /api/stats
Stats ==
    /\ resp' = [op |-> "stats", status |-> 200, ok |-> TRUE,
                n |-> getCampusStats(items, claims).totalMealsSaved,
                total |-> getCampusStats(items, claims).totalSavings]
    /\ UNCHANGED <<sessions, items, claims, donations, nextClaimId, nextDonationId, now,
                   pc, local, stocked, touched, reservedOk>>

\* ------------------------------------------------------------ expiry sweeper
\* updateExpiredItemsStatus, first UPDATE: active items past their deadline
DeactivateExpired(its, t) ==
    [i \in ItemIds |->
        IF its[i].state = "live" /\ its[i].isActive /\ its[i].availableUntil < t
        THEN [its[i] EXCEPT !.isActive = FALSE]
        ELSE its[i]]

\* ReactivateExtended without the condition on the stock
ReactivateExtendedAnyStock(its, t) ==
    [i \in ItemIds |->
        IF /\ its[i].state = "live" /\ ~its[i].isActive
           /\ its[i].availableUntil >= t
        THEN [its[i] EXCEPT !.isActive = TRUE]
        ELSE its[i]]

\* updateExpiredItemsStatus, second UPDATE: inactive items whose deadline is
\* not over and that still have stock
ReactivateExtended(its, t) ==
    [i \in ItemIds |->
        IF /\ its[i].state = "live" /\ ~its[i].isActive
           /\ its[i].availableUntil >= t /\ its[i].quantityAvailable >= 1
        THEN [its[i] EXCEPT !.isActive = TRUE]
        ELSE its[i]]

\* storage.updateExpiredItemsStatus: the catalog it leaves
updateExpiredItemsStatus(its, t) ==
    ReactivateExtended(DeactivateExpired(its, t), t)

\* SweepCount counting every item past its deadline
SweepCountAllExpired(its, t) ==
    Cardinality({i \in ItemIds : its[i].state = "live"
                                    /\ its[i].availableUntil < t})

\* storage.updateExpiredItemsStatus: expiredResult.length
SweepCount(its, t) ==
    Cardinality({i \in ItemIds : DeactivateExpired(its, t)[i] # its[i]})

\* storage.updateExpiredItemsStatus, called on its own
Sweep ==
    /\ items' = updateExpiredItemsStatus(items, now)
    /\ resp' = Response("sweep", 200, TRUE, SweepCount(items, now))
    /\ UNCHANGED <<sessions, claims, donations, nextClaimId, nextDonationId, now,
                   pc, local, stocked, touched, reservedOk>>

\* storage.getAllActiveFoodItems: the rows selected after the sweep
ActiveSelection(its, t) ==
    {i \in ItemIds : /\ its[i].state = "live" /\ its[i].isActive
                     /\ its[i].availableUntil >= t
                     /\ its[i].quantityAvailable >= 1}

\* GET /api/food-items -> storage.getAllActiveFoodItems
ListActive ==
    /\ items' = updateExpiredItemsStatus(items, now)
    /\ resp' = Response("listActive", 200, TRUE,
                        Cardinality(ActiveSelection(items', now)))
    /\ UNCHANGED <<sessions, claims, donations, nextClaimId, nextDonationId, now,
                   pc, local, stocked, touched, reservedOk>>

\* ---------------------------------------------------------- donation tracker
\* storage.getExpiredFoodItems
getExpiredFoodItems(its, t) ==
    {i \in ItemIds : /\ its[i].state = "live" /\ ~its[i].isActive
                     /\ its[i].availableUntil < t}

\* NoDonationFor without the lookup of an existing donation
NoDonationForUnchecked(i) ==
    TRUE

\* transferExpiredItemsToDonations: existingDonation.length === 0
NoDonationFor(i) ==
    \A d \in donations : d.foodItemId # i

\* ToTransfer without the condition on the stock
ToTransferAnyStock(its, t) ==
    {i \in getExpiredFoodItems(its, t) : NoDonationFor(i)}

\* transferExpiredItemsToDonations: the items a donation is created for
ToTransfer(its, t) ==
    {i \in getExpiredFoodItems(its, t) :
        its[i].quantityAvailable > 0 /\ NoDonationFor(i)}

\* transferExpiredItemsToDonations: the row handed to createFoodDonation
NewDonation(id, i, qty) ==
    [id |-> id, foodItemId |-> i, quantityDonated |-> qty,
     status |-> "available", ngoName |-> "", ngoContactPerson |-> "",
     ngoPhoneNumber |-> "", reservedAt |-> NULL, collectedAt |-> NULL]

\* POST /api/donations/transfer-expired
\* -> storage.transferExpiredItemsToDonations
TransferExpired ==
    LET swept == updateExpiredItemsStatus(items, now)
        chosen == ToTransfer(swept, now)
        rank(i) == Cardinality({j \in chosen : j > i})
    IN /\ items' = swept
       /\ donations' = donations \cup
             {NewDonation(nextDonationId + rank(i), i,
                          swept[i].quantityAvailable) : i \in chosen}
       /\ nextDonationId' = nextDonationId + Cardinality(chosen)
       /\ resp' = Response("transferExpired", 200, TRUE, Cardinality(chosen))
       /\ UNCHANGED <<sessions, claims, nextClaimId, now, pc, local, stocked,
                      touched, reservedOk>>

\* ------------------------------------------- donation transfer, step by step
\* the rows of a select ordered by createdAt descending: newest id first
RECURSIVE NewestFirst(_, _)
NewestFirst(its, S) ==
    IF S = {} THEN <<>>
    ELSE LET m == CHOOSE x \in S : \A y \in S : y <= x
         IN <<[id |-> m, quantityAvailable |-> its[m].quantityAvailable]>>
                \o NewestFirst(its, S \ {m})

\* transferExpiredItemsToDonations: the loop passes over the rows whose
\* quantityAvailable is not above 0 without awaiting anything
RECURSIVE SkipEmpty(_)
SkipEmpty(rows) ==
    IF rows = <<>> THEN <<>>
    ELSE IF rows[1].quantityAvailable > 0 THEN rows
    ELSE SkipEmpty(Tail(rows))

\* the constraints of food_donations an insert must meet: the row references
\* a food item; the table declares nothing else about foodItemId
DonationInsertAllowed(i) ==
    items[i].state = "live"

\* transferExpiredItemsToDonations: the loop moves on to the rows left, and
\* returns transferredCount when there is none
TransferContinue(p, rows, count) ==
    LET todo == SkipEmpty(rows) IN
    IF todo = <<>>
    THEN /\ resp' = Response("transferExpired", 200, TRUE, count)
         /\ pc' = [pc EXCEPT ![p] = "idle"]
         /\ local' = [local EXCEPT ![p] = NoLocal]
    ELSE /\ pc' = [pc EXCEPT ![p] = "check"]
         /\ local' = [local EXCEPT ![p] =
                         [t |-> local[p].t, expiredItems |-> todo,
                          transferredCount |-> count]]
         /\ UNCHANGED resp

\* updateExpiredItemsStatus, first UPDATE, as the transfer's first await
TransferDeactivate(p) ==
    /\ pc[p] = "idle"
    /\ nextDonationId <= MaxDonations
    /\ items' = DeactivateExpired(items, now)
    /\ pc' = [pc EXCEPT ![p] = "reactivate"]
    /\ local' = [local EXCEPT ![p] =
                    [t |-> now, expiredItems |-> <<>>, transferredCount |-> 0]]
    /\ UNCHANGED <<sessions, claims, donations, nextClaimId, nextDonationId, now, resp,
                   stocked, touched, reservedOk>>

\* updateExpiredItemsStatus, second UPDATE, with the clock value read before
\* the first
TransferReactivate(p) ==
    /\ pc[p] = "reactivate"
    /\ items' = ReactivateExtended(items, local[p].t)
    /\ pc' = [pc EXCEPT ![p] = "select"]
    /\ UNCHANGED <<sessions, claims, donations, nextClaimId, nextDonationId, now, resp,
                   local, stocked, touched, reservedOk>>

\* transferExpiredItemsToDonations: expiredItems is read
TransferSelect(p) ==
    /\ pc[p] = "select"
    /\ TransferContinue(p, NewestFirst(items, getExpiredFoodItems(items, now)), 0)
    /\ UNCHANGED <<sessions, items, claims, donations, nextClaimId, nextDonationId, now,
                   stocked, touched, reservedOk>>

\* transferExpiredItemsToDonations: existingDonation is read for the row at
\* hand
TransferCheck(p) ==
    /\ pc[p] = "check"
    /\ LET rows == local[p].expiredItems IN
       IF NoDonationFor(rows[1].id)
       THEN /\ pc' = [pc EXCEPT ![p] = "create"]
            /\ UNCHANGED <<resp, local>>
       ELSE TransferContinue(p, Tail(rows), local[p].transferredCount)
    /\ UNCHANGED <<sessions, items, claims, donations, nextClaimId, nextDonationId, now,
                   stocked, touched, reservedOk>>

\* transferExpiredItemsToDonations: createFoodDonation for the row at hand
TransferCreate(p) ==
    /\ pc[p] = "create"
    /\ LET rows == local[p].expiredItems IN
       IF ~DonationInsertAllowed(rows[1].id)
       THEN /\ resp' = Response("transferExpired", 500, FALSE, 0)
            /\ pc' = [pc EXCEPT ![p] = "idle"]
            /\ local' = [local EXCEPT ![p] = NoLocal]
            /\ UNCHANGED <<donations, nextDonationId>>
       ELSE /\ donations' = donations \cup
                   {NewDonation(nextDonationId, rows[1].id,
                                rows[1].quantityAvailable)}
            /\ nextDonationId' = nextDonationId + 1
            /\ TransferContinue(p, Tail(rows), local[p].transferredCount + 1)
    /\ UNCHANGED <<sessions, items, claims, nextClaimId, now, stocked, touched,
                   reservedOk>>

\* ------------------------------------------------------- donation pickup
\* a body field the request left out
MissingField == "<undefined>"
\* the NGO fields PUT /api/donations/:id/reserve is sent
NgoNames == {MissingField, "", "Asha", "Seva"}
NgoContacts == {MissingField, "", "Ravi"}
NgoPhones == {MissingField, "", "555"}
\* the donation ids of the requests: the second one names no row
DonationIds == {1, 2}
\* the deadlines of the items followed into donation
PickupDeadlines == {1, 2}
Users == Students \cup Staff
\* a staff user who lists no item
OtherStaff == {"staff2"}
\* a request that carries no session user
Anonymous == "anonymous"
\* the callers of the item routes
Callers == Users \cup OtherStaff \cup {Anonymous}

\* user.role of storage.getUser
Role(u) ==
    IF u \in Staff \cup OtherStaff THEN "staff" ELSE "student"

\* JavaScript's !v on a body field
Falsy(v) ==
    v \in {MissingField, ""}

\* NgoInfoGiven looking at the name only
NgoInfoGivenNameOnly(ngoName, ngoContactPerson, ngoPhoneNumber) ==
    ~Falsy(ngoName)

\* PUT /api/donations/:id/reserve: the check of the body
NgoInfoGiven(ngoName, ngoContactPerson, ngoPhoneNumber) ==
    ~(Falsy(ngoName) \/ Falsy(ngoContactPerson) \/ Falsy(ngoPhoneNumber))

\* the ngoInfo argument left out
NoNgoInfo == [ngoName |-> MissingField]

\* storage.updateDonationStatus: set(updateData) where id matches
updateDonationStatus(id, status, ngoInfo) ==
    {IF d.id # id THEN d
     ELSE IF status = "reserved_for_ngo" /\ ngoInfo # NoNgoInfo
     THEN [d EXCEPT !.status = status,
                    !.ngoName = ngoInfo.ngoName,
                    !.ngoContactPerson = ngoInfo.ngoContactPerson,
                    !.ngoPhoneNumber = ngoInfo.ngoPhoneNumber,
                    !.reservedAt = now]
     ELSE IF status = "collected"
     THEN [d EXCEPT !.status = status, !.collectedAt = now]
     ELSE [d EXCEPT !.status = status] : d \in donations}

\* PUT /api/donations/:id/reserve
ReserveForNGO(u, id, ngoName, ngoContactPerson, ngoPhoneNumber) ==
    /\ IF Role(u) # "staff"
       THEN /\ resp' = Response("reserveForNGO", 403, FALSE, 0)
            /\ UNCHANGED donations
       ELSE IF ~NgoInfoGiven(ngoName, ngoContactPerson, ngoPhoneNumber)
       THEN /\ resp' = Response("reserveForNGO", 400, FALSE, 0)
            /\ UNCHANGED donations
       ELSE /\ donations' = updateDonationStatus(id, "reserved_for_ngo",
                               [ngoName |-> ngoName,
                                ngoContactPerson |-> ngoContactPerson,
                                ngoPhoneNumber |-> ngoPhoneNumber])
            /\ resp' = Response("reserveForNGO", 200, TRUE, 0)
    /\ UNCHANGED <<sessions, items, claims, nextClaimId, nextDonationId, now,
                   pc, local, stocked, touched, reservedOk>>

\* PUT /api/donations/:id/collect
MarkCollected(u, id) ==
    /\ IF Role(u) # "staff"
       THEN /\ resp' = Response("markCollected", 403, FALSE, 0)
            /\ UNCHANGED donations
       ELSE /\ donations' = updateDonationStatus(id, "collected", NoNgoInfo)
            /\ resp' = Response("markCollected", 200, TRUE, 0)
    /\ UNCHANGED <<sessions, items, claims, nextClaimId, nextDonationId, now,
                   pc, local, stocked, touched, reservedOk>>

\* ------------------------------------------------------------- staff edits
\* the partial bodies PUT /api/food-items/:id is sent
Updates ==
    {[availableUntil |-> MaxTime + 1]}
        \cup {[quantityAvailable |-> n] : n \in 0..MaxQty}
        \cup {[isActive |-> FALSE]}

\* storage.updateFoodItem: set({ ...updates })
updateFoodItem(i, upd) ==
    [items EXCEPT ![i] =
        [f \in DOMAIN items[i] |->
            IF f \in DOMAIN upd THEN upd[f] ELSE items[i][f]]]

\* PUT /api/food-items/:id
UpdateFoodItem(u, i, upd) ==
    /\ IF u = Anonymous
       THEN /\ resp' = Response("updateFoodItem", 401, FALSE, 0)
            /\ UNCHANGED <<items, touched>>
       ELSE IF Role(u) # "staff"
       THEN /\ resp' = Response("updateFoodItem", 403, FALSE, 0)
            /\ UNCHANGED <<items, touched>>
       ELSE IF getFoodItemById(i).state # "live" \/ getFoodItemById(i).createdBy # u
       THEN /\ resp' = Response("updateFoodItem", 404, FALSE, 0)
            /\ UNCHANGED <<items, touched>>
       ELSE /\ items' = updateFoodItem(i, upd)
            /\ touched' = [touched EXCEPT ![i] = TRUE]
            /\ resp' = Response("updateFoodItem", 200, TRUE, 0)
    /\ UNCHANGED <<sessions, claims, donations, nextClaimId, nextDonationId, now,
                   pc, local, stocked, reservedOk>>

\* DELETE /api/food-items/:id -> storage.deleteFoodItem
DeleteFoodItem(u, i) ==
    /\ IF u = Anonymous
       THEN /\ resp' = Response("deleteFoodItem", 401, FALSE, 0)
            /\ UNCHANGED <<items, claims, donations, touched>>
       ELSE IF Role(u) # "staff"
       THEN /\ resp' = Response("deleteFoodItem", 403, FALSE, 0)
            /\ UNCHANGED <<items, claims, donations, touched>>
       ELSE IF getFoodItemById(i).state # "live" \/ getFoodItemById(i).createdBy # u
       THEN /\ resp' = Response("deleteFoodItem", 404, FALSE, 0)
            /\ UNCHANGED <<items, claims, donations, touched>>
       ELSE /\ donations' = {d \in donations : d.foodItemId # i}
            /\ claims' = {c \in claims : c.foodItemId # i}
            /\ items' = [items EXCEPT ![i] = [NoItem EXCEPT !.state = "deleted"]]
            /\ touched' = [touched EXCEPT ![i] = TRUE]
            /\ resp' = Response("deleteFoodItem", 204, TRUE, 0)
    /\ UNCHANGED <<sessions, nextClaimId, nextDonationId, now, pc, local, stocked,
                   reservedOk>>

\* DELETE /api/food-items/:id as the second routes file registers it: the
\* handler reads no session and no user, whoever the caller u is
DeleteFoodItemOpen(u, i) ==
    /\ IF getFoodItemById(i).state # "live"
       THEN /\ resp' = Response("deleteFoodItem", 404, FALSE, 0)
            /\ UNCHANGED <<items, claims, donations, touched>>
       ELSE /\ donations' = {d \in donations : d.foodItemId # i}
            /\ claims' = {c \in claims : c.foodItemId # i}
            /\ items' = [items EXCEPT ![i] = [NoItem EXCEPT !.state = "deleted"]]
            /\ touched' = [touched EXCEPT ![i] = TRUE]
            /\ resp' = Response("deleteFoodItem", 204, TRUE, 0)
    /\ UNCHANGED <<sessions, nextClaimId, nextDonationId, now, pc, local, stocked,
                   reservedOk>>

\* ------------------------------------------------------ delete, step by step
\* food_claims.foodItemId references food_items: rows that hold the item
ClaimsReference(i) ==
    \E c \in claims : c.foodItemId = i

\* food_donations.foodItemId references food_items: rows that hold the item
DonationsReference(i) ==
    \E d \in donations : d.foodItemId = i

\* DELETE /api/food-items/:id up to the call of deleteFoodItem
DeleteRead(p, u, i) ==
    /\ pc[p] = "idle"
    /\ IF Role(u) # "staff"
       THEN /\ resp' = Response("deleteFoodItem", 403, FALSE, 0)
            /\ UNCHANGED <<pc, local>>
       ELSE IF getFoodItemById(i).state # "live" \/ getFoodItemById(i).createdBy # u
       THEN /\ resp' = Response("deleteFoodItem", 404, FALSE, 0)
            /\ UNCHANGED <<pc, local>>
       ELSE /\ pc' = [pc EXCEPT ![p] = "deleteDonations"]
            /\ local' = [local EXCEPT ![p] = [foodItemId |-> i]]
            /\ UNCHANGED resp
    /\ UNCHANGED <<sessions, items, claims, donations, nextClaimId, nextDonationId, now,
                   stocked, touched, reservedOk>>

\* deleteFoodItem, first DELETE: the donations of the item
DeleteDonations(p) ==
    /\ pc[p] = "deleteDonations"
    /\ donations' = {d \in donations : d.foodItemId # local[p].foodItemId}
    /\ pc' = [pc EXCEPT ![p] = "deleteClaims"]
    /\ UNCHANGED <<sessions, items, claims, nextClaimId, nextDonationId, now, resp,
                   local, stocked, touched, reservedOk>>

\* deleteFoodItem, second DELETE: the claims of the item
DeleteClaims(p) ==
    /\ pc[p] = "deleteClaims"
    /\ claims' = {c \in claims : c.foodItemId # local[p].foodItemId}
    /\ pc' = [pc EXCEPT ![p] = "deleteItem"]
    /\ UNCHANGED <<sessions, items, donations, nextClaimId, nextDonationId, now, resp,
                   local, stocked, touched, reservedOk>>

\* deleteFoodItem, third DELETE: the item; the database refuses it while a
\* row references the item, and the handler answers 500
DeleteItem(p) ==
    /\ pc[p] = "deleteItem"
    /\ LET i == local[p].foodItemId IN
       IF ClaimsReference(i) \/ DonationsReference(i)
       THEN /\ resp' = Response("deleteFoodItem", 500, FALSE, 0)
            /\ UNCHANGED <<items, touched>>
       ELSE /\ items' = IF items[i].state = "live"
                        THEN [items EXCEPT ![i] = [NoItem EXCEPT !.state = "deleted"]]
                        ELSE items
            /\ touched' = [touched EXCEPT ![i] = TRUE]
            /\ resp' = Response("deleteFoodItem", 204, TRUE, 0)
    /\ pc' = [pc EXCEPT ![p] = "idle"]
    /\ local' = [local EXCEPT ![p] = NoLocal]
    /\ UNCHANGED <<sessions, claims, donations, nextClaimId, nextDonationId, now,
                   stocked, reservedOk>>

\* ------------------------------------------------------------ sessions
\* the requests followed through the session middleware
SessionRequests == {"login", "whoami", "logout"}

\* sessionMiddleware, clean up: the age computed from a generated id, whose
\* base-36 value times 1000 lies beyond the clock, is never above one day
SessionStale(sid) ==
    FALSE

\* sessionMiddleware: the store after the session is initialised and the old
\* sessions are cleaned up
SessionOpened(sid) ==
    [x \in SessionIds |->
        IF SessionStale(x) THEN NoSession
        ELSE IF x = sid /\ ~sessions[x].stored THEN EmptySession
        ELSE sessions[x]]

\* sessionMiddleware, res.on('finish'): the request's copy replaces the
\* stored session unless the session was destroyed
SessionSaved(sid, session) ==
    IF sessions[sid].stored
    THEN [sessions EXCEPT ![sid] = session]
    ELSE sessions

\* sessionMiddleware up to next(): req.session is a copy of the stored session
SessionStart(p, sid, request) ==
    /\ pc[p] = "idle"
    /\ sessions' = SessionOpened(sid)
    /\ pc' = [pc EXCEPT ![p] = request]
    /\ local' = [local EXCEPT ![p] =
                    [sessionId |-> sid, request |-> request,
                     session |-> SessionOpened(sid)[sid]]]
    /\ UNCHANGED <<items, claims, donations, nextClaimId, nextDonationId, now,
                   resp, stocked, touched, reservedOk>>

\* GET /api/auth/google/callback: req.session.user is set on the copy
Login(p, u) ==
    /\ pc[p] = "login"
    /\ local' = [local EXCEPT ![p].session.user = u]
    /\ resp' = Response("login", 302, TRUE, 0)
    /\ pc' = [pc EXCEPT ![p] = "finish"]
    /\ UNCHANGED <<sessions, items, claims, donations, nextClaimId,
                   nextDonationId, now, stocked, touched, reservedOk>>

\* GET /api/auth/user: the user of the request's copy
WhoAmI(p) ==
    /\ pc[p] = "whoami"
    /\ resp' = IF local[p].session.user # NoSession.user
               THEN Response("whoami", 200, TRUE, 0)
               ELSE Response("whoami", 401, FALSE, 0)
    /\ pc' = [pc EXCEPT ![p] = "finish"]
    /\ UNCHANGED <<sessions, items, claims, donations, nextClaimId,
                   nextDonationId, now, local, stocked, touched, reservedOk>>

\* POST /api/auth/logout: req.session.destroy deletes the stored session
Logout(p) ==
    /\ pc[p] = "logout"
    /\ sessions' = [sessions EXCEPT ![local[p].sessionId] = NoSession]
    /\ resp' = Response("logout", 200, TRUE, 0)
    /\ pc' = [pc EXCEPT ![p] = "finish"]
    /\ UNCHANGED <<items, claims, donations, nextClaimId, nextDonationId, now,
                   local, stocked, touched, reservedOk>>

\* sessionMiddleware, res.on('finish')
SessionFinish(p) ==
    /\ pc[p] = "finish"
    /\ sessions' = SessionSaved(local[p].sessionId, local[p].session)
    /\ pc' = [pc EXCEPT ![p] = "idle"]
    /\ local' = [local EXCEPT ![p] = NoLocal]
    /\ UNCHANGED <<items, claims, donations, nextClaimId, nextDonationId, now,
                   resp, stocked, touched, reservedOk>>

\* --------------------------------------------------------- specifications
\* The claim lifecycle: every handler that reads or writes a claim, each
\* handled with no other request in between.
Next ==
    \/ Tick
    \/ \E u \in Staff, i \in LifecycleItems, qty \in 0..MaxQty, until \in Deadlines :
          CreateFoodItem(u, i, qty, until)
    \/ \E u \in Students, i \in ItemIds, q \in Quantities, code \in Codes :
          Reserve(u, i, q, code)
    \/ \E code \in Codes : Verify(code)
    \/ \E code \in Codes : LookupByCode(code)
    \/ \E code \in Codes : ClaimByCode(code)
    \/ \E id \in 1..MaxClaims : Complete(id)

Spec == Init /\ [][Next]_vars

\* Redemption at the counter next to the requests that only read the claims:
\* the listings and the campus figures.
NextCounter ==
    \/ Tick
    \/ \E u \in Staff, i \in LifecycleItems, qty \in 0..MaxQty, until \in Deadlines :
          CreateFoodItem(u, i, qty, until)
    \/ \E u \in Students, i \in ItemIds, q \in Quantities, code \in Codes :
          Reserve(u, i, q, code)
    \/ \E code \in Codes : Verify(code)
    \/ \E id \in 1..MaxClaims : Complete(id)
    \/ \E u \in Students : ListByUser(u)
    \/ ListActiveReservations
    \/ Stats

SpecCounter == Init /\ [][NextCounter]_vars

\* The catalog, the sweeper and the donation transfer, the stock being set by
\* staff.
NextCatalog ==
    \/ Tick
    \/ \E u \in Staff, i \in ItemIds, qty \in 0..MaxQty, until \in Deadlines :
          CreateFoodItem(u, i, qty, until)
    \/ ListActive
    \/ TransferExpired
    \/ \E u \in Staff, i \in ItemIds, upd \in Updates : UpdateFoodItem(u, i, upd)
    \/ \E u \in Staff, i \in ItemIds : DeleteFoodItem(u, i)

SpecCatalog == Init /\ [][NextCatalog]_vars

\* Reserve requests running concurrently: each await of the handler is a step
\* other requests interleave with.
NextConc ==
    \/ Tick
    \/ \E u \in Staff, i \in LifecycleItems, qty \in 0..MaxQty, until \in Deadlines :
          CreateFoodItem(u, i, qty, until)
    \/ \E p \in Procs, u \in Students, i \in ItemIds, q \in Quantities, code \in Codes :
          ReserveRead(p, u, i, q, code)
    \/ \E p \in Procs : ReserveInsert(p)
    \/ \E p \in Procs : ReserveDecrement(p)

SpecConc == Init /\ [][NextConc]_vars

\* The sweeper and the transfer over a catalog whose deadlines and flags staff
\* edit.
SweepUpdates ==
    {[availableUntil |-> MaxTime + 1], [isActive |-> FALSE]}

NextSweep ==
    \/ Tick
    \/ \E u \in Staff, i \in ItemIds, qty \in 0..MaxQty, until \in Deadlines :
          CreateFoodItem(u, i, qty, until)
    \/ Sweep
    \/ ListActive
    \/ TransferExpired
    \/ \E u \in Staff, i \in ItemIds, upd \in SweepUpdates :
          UpdateFoodItem(u, i, upd)
    \/ \E u \in Staff, i \in ItemIds : DeleteFoodItem(u, i)

SpecSweep == Init /\ [][NextSweep]_vars

\* Transfer requests running concurrently: each await of
\* transferExpiredItemsToDonations is a step other requests interleave with.
NextTransfer ==
    \/ Tick
    \/ \E u \in Staff, i \in ItemIds, qty \in 0..MaxQty, until \in Deadlines :
          CreateFoodItem(u, i, qty, until)
    \/ \E p \in Procs : TransferDeactivate(p)
    \/ \E p \in Procs : TransferReactivate(p)
    \/ \E p \in Procs : TransferSelect(p)
    \/ \E p \in Procs : TransferCheck(p)
    \/ \E p \in Procs : TransferCreate(p)

SpecTransfer == Init /\ [][NextTransfer]_vars

\* The donation of an expired item and its pickup by an NGO.
NextDonation ==
    \/ Tick
    \/ \E u \in Staff, i \in LifecycleItems, qty \in 0..MaxQty,
          until \in PickupDeadlines :
          CreateFoodItem(u, i, qty, until)
    \/ TransferExpired
    \/ \E u \in Users, id \in DonationIds, ngoName \in NgoNames,
          ngoContactPerson \in NgoContacts, ngoPhoneNumber \in NgoPhones :
          ReserveForNGO(u, id, ngoName, ngoContactPerson, ngoPhoneNumber)
    \/ \E u \in Users, id \in DonationIds : MarkCollected(u, id)

SpecDonation == Init /\ [][NextDonation]_vars

\* A delete running concurrently with reserve and transfer requests on the
\* same item.
NextDelete ==
    \/ Tick
    \/ \E u \in Staff, i \in LifecycleItems, qty \in 1..MaxQty, until \in Deadlines :
          CreateFoodItem(u, i, qty, until)
    \/ \E p \in Procs, u \in Students, i \in LifecycleItems, code \in Codes :
          ReserveRead(p, u, i, 1, code)
    \/ \E p \in Procs : ReserveInsert(p)
    \/ \E p \in Procs : ReserveDecrement(p)
    \/ \E p \in Procs : TransferDeactivate(p)
    \/ \E p \in Procs : TransferReactivate(p)
    \/ \E p \in Procs : TransferSelect(p)
    \/ \E p \in Procs : TransferCheck(p)
    \/ \E p \in Procs : TransferCreate(p)
    \/ \E p \in Procs, u \in Staff, i \in LifecycleItems : DeleteRead(p, u, i)
    \/ \E p \in Procs : DeleteDonations(p)
    \/ \E p \in Procs : DeleteClaims(p)
    \/ \E p \in Procs : DeleteItem(p)

SpecDelete == Init /\ [][NextDelete]_vars

\* The item routes called by every kind of caller, over an item that has
\* claims and a donation.
NextAccess ==
    \/ Tick
    \/ \E u \in Staff, i \in LifecycleItems, qty \in 1..MaxQty, until \in Deadlines :
          CreateFoodItem(u, i, qty, until)
    \/ \E u \in Students, i \in LifecycleItems, code \in Codes :
          Reserve(u, i, 1, code)
    \/ ListActive
    \/ TransferExpired
    \/ \E u \in Callers, i \in ItemIds, upd \in SweepUpdates :
          UpdateFoodItem(u, i, upd)
    \/ \E u \in Callers, i \in ItemIds : DeleteFoodItem(u, i)
    \/ \E u \in Callers, i \in ItemIds : DeleteFoodItemOpen(u, i)

SpecAccess == Init /\ [][NextAccess]_vars

\* Requests on the same cookies passing through the session middleware
\* concurrently.
NextSession ==
    \/ \E p \in Procs, sid \in SessionIds, request \in SessionRequests :
          SessionStart(p, sid, request)
    \/ \E p \in Procs, u \in Students : Login(p, u)
    \/ \E p \in Procs : WhoAmI(p)
    \/ \E p \in Procs : Logout(p)
    \/ \E p \in Procs : SessionFinish(p)

SpecSession == Init /\ [][NextSession]_vars

\* ================================================================== claims
AllIdle == \A p \in Procs : pc[p] = "idle"

\* the claims on item i that hold stock: status reserved or claimed
HoldingClaims(i) ==
    {c \in claims : c.foodItemId = i /\ c.status \in {"reserved", "claimed"}}

\* C1: in every reachable state, concurrent reserve requests included, an
\* item's quantityAvailable is at least 0.
C1_QuantityNeverNegative ==
    \A i \in ItemIds :
        items[i].state = "live" => items[i].quantityAvailable >= 0

\* C2: for every item that staff did not edit, the quantityClaimed of its
\* reserved and claimed claims add up to no more than the quantity the item
\* was stocked with.
C2_ClaimedWithinStock ==
    \A i \in ItemIds :
        (items[i].state = "live" /\ ~touched[i])
            => SumQuantity(HoldingClaims(i)) <= stocked[i]

\* C3: once every concurrent reserve request on an item has finished (and
\* staff neither edited nor deleted the item), quantityAvailable is the
\* stocked quantity minus the quantityClaimed of the requests answered 201,
\* which are the requests whose claim row exists.
C3_FinalQuantity ==
    \A i \in ItemIds :
        (items[i].state = "live" /\ ~touched[i] /\ AllIdle)
            => /\ items[i].quantityAvailable = stocked[i] - reservedOk[i]
               /\ reservedOk[i] = SumQuantity({c \in claims : c.foodItemId = i})

\* two requests raced for the last unit and both have finished
C3_Witness ==
    /\ AllIdle
    /\ \E i \in ItemIds :
          /\ items[i].state = "live"
          /\ items[i].quantityAvailable < 0
          /\ Cardinality({c \in claims : c.foodItemId = i}) >= 2

\* C4: once a claim's status is claimed, expired or cancelled, no operation
\* changes its status again.
C4_TerminalStatusIsFinal ==
    [][\A c \in claims :
          c.status \in {"claimed", "expired", "cancelled"}
              => \A d \in claims' : d.id = c.id => d.status = c.status]_vars

\* C5: a claim has a claimedAt if and only if its status is claimed.
C5_ClaimedAtIffClaimed ==
    \A c \in claims : (c.claimedAt # NULL) <=> (c.status = "claimed")

\* C6: verify answers success only for a code whose claim has status
\* reserved and has not passed its expiresAt.
C6_VerifySuccessOnlyIfValid ==
    [][\A code \in Codes :
          (Verify(code) /\ resp'.ok)
              => \E c \in claims : /\ c.claimCode = code
                                   /\ c.status = "reserved"
                                   /\ now <= c.expiresAt]_vars

\* a verification has just succeeded on a reserved claim
C6_Witness ==
    /\ resp.op = "verify" /\ resp.ok
    /\ \E c \in claims : c.status = "reserved" /\ now = c.expiresAt

\* C7: complete on a claim whose status is not reserved fails or leaves the
\* claim as it was, and complete never changes an item.
C7_CompleteOnlyFromReserved ==
    [][\A id \in 1..MaxClaims :
          Complete(id)
              => /\ \A c \in claims :
                       (c.id = id /\ c.status # "reserved")
                           => (resp'.status # 200 \/ c \in claims')
                 /\ items' = items]_vars

\* C8: a reserve answered 201 takes exactly the claimed quantity from the
\* item and adds exactly one claim: that quantity, status reserved, no
\* claimedAt, expiresAt two hours after the request.
C8_ReserveEffect ==
    [][\A u \in Students, i \in ItemIds, q \in Quantities, code \in Codes :
          (Reserve(u, i, q, code) /\ resp'.status = 201)
              => /\ items' = [items EXCEPT ![i].quantityAvailable = @ - q]
                 /\ \E c \in claims' :
                       /\ c \notin claims
                       /\ claims' = claims \cup {c}
                       /\ c.userId = u /\ c.foodItemId = i
                       /\ c.quantityClaimed = q /\ c.claimCode = code
                       /\ c.status = "reserved" /\ c.claimedAt = NULL
                       /\ c.expiresAt = now + 2]_vars

\* a reserve of two units has just been answered 201
C8_Witness ==
    /\ resp.op = "reserve" /\ resp.status = 201
    /\ \E c \in claims : /\ c.id = nextClaimId - 1
                         /\ c.quantityClaimed = 2
                         /\ c.expiresAt = now + 2

\* C9: reserve fails, adds no claim and leaves the quantity alone whenever
\* the item does not exist, is not active, has availableUntil <= now, or has
\* less than the requested quantity, in particular none.
C9_ReserveFailsWhenUnavailable ==
    [][\A u \in Students, i \in ItemIds, q \in Quantities, code \in Codes :
          (/\ Reserve(u, i, q, code)
           /\ \/ items[i].state # "live"
              \/ ~items[i].isActive
              \/ items[i].availableUntil <= now
              \/ items[i].quantityAvailable < q
              \/ items[i].quantityAvailable = 0)
              => /\ resp'.status # 201
                 /\ claims' = claims
                 /\ items' = items]_vars

\* C10: a transferExpired run that directly follows another one creates no
\* donation and returns 0.
C10_TransferIdempotent ==
    [][(resp.op = "transferExpired" /\ TransferExpired)
          => (donations' = donations /\ resp'.n = 0)]_vars

\* a transfer run has returned 0 while the expired item's stock, all of
\* it, is already in a donation
C10_Witness ==
    /\ resp.op = "transferExpired" /\ resp.n = 0
    /\ \E d \in donations :
          /\ d.quantityDonated = MaxQty
          /\ items[d.foodItemId].quantityAvailable = MaxQty
          /\ items[d.foodItemId].availableUntil < now

\* C11: in every reachable state, concurrent transferExpired requests
\* included, a food item has at most one donation row.
C11_OneDonationPerItem ==
    \A d1, d2 \in donations : d1.foodItemId = d2.foodItemId => d1 = d2

\* C12: reserveForNGO on a donation whose status is not available leaves
\* the donation as it is: status, NGO fields and reservedAt.
C12_ReserveOnlyFromAvailable ==
    [][\A u \in Users, id \in DonationIds, ngoName \in NgoNames,
          ngoContactPerson \in NgoContacts, ngoPhoneNumber \in NgoPhones :
          ReserveForNGO(u, id, ngoName, ngoContactPerson, ngoPhoneNumber)
              => \A d \in donations :
                    (d.id = id /\ d.status # "available") => d \in donations']_vars

\* C13: a donation becomes collected only from reserved_for_ngo, never
\* straight from available, and a collected donation keeps its status.
C13_CollectedOnlyFromReserved ==
    [][\A d \in donations, e \in donations' :
          e.id = d.id
              => /\ (e.status = "collected" /\ d.status # "collected")
                        => d.status = "reserved_for_ngo"
                 /\ d.status = "collected" => e.status = "collected"]_vars

\* C14: reserveForNGO sent by staff with ngoName, ngoContactPerson or
\* ngoPhoneNumber missing or empty is answered 400 and changes no donation.
C14_ReserveNeedsNgoInfo ==
    [][\A u \in Staff, id \in DonationIds, ngoName \in NgoNames,
          ngoContactPerson \in NgoContacts, ngoPhoneNumber \in NgoPhones :
          (/\ ReserveForNGO(u, id, ngoName, ngoContactPerson, ngoPhoneNumber)
           /\ \/ Falsy(ngoName) \/ Falsy(ngoContactPerson)
              \/ Falsy(ngoPhoneNumber))
              => /\ resp'.status = 400
                 /\ donations' = donations]_vars

\* a reserve request has been refused for its body while the donation is
\* available, its NGO fields and reservedAt unset
C14_Witness ==
    /\ resp.op = "reserveForNGO" /\ resp.status = 400
    /\ \E d \in donations : /\ d.status = "available" /\ d.ngoName = ""
                            /\ d.ngoPhoneNumber = "" /\ d.reservedAt = NULL

\* C15: one run of the sweeper at time now leaves every item with
\* availableUntil < now inactive and every item with availableUntil >= now
\* and quantityAvailable >= 1 active, whatever its flag was, and leaves the
\* flag of an item with availableUntil >= now and quantityAvailable = 0 alone.
C15_SweepSetsFlags ==
    [][(Sweep \/ ListActive \/ TransferExpired)
          => \A i \in ItemIds :
                items[i].state = "live"
                    => /\ items[i].availableUntil < now => ~items'[i].isActive
                       /\ (/\ items[i].availableUntil >= now
                           /\ items[i].quantityAvailable >= 1)
                              => items'[i].isActive
                       /\ (/\ items[i].availableUntil >= now
                           /\ items[i].quantityAvailable = 0)
                              => items'[i].isActive = items[i].isActive]_vars

\* a sweep has run over an item whose deadline staff had moved past the
\* clock and that has all its stock, now active, next to an expired item, now
\* inactive
C15_Witness ==
    /\ resp.op = "listActive"
    /\ \E i, j \in ItemIds :
          /\ items[i].state = "live" /\ touched[i] /\ items[i].isActive
          /\ items[i].availableUntil > MaxTime
          /\ items[i].quantityAvailable = MaxQty
          /\ items[j].state = "live" /\ ~items[j].isActive
          /\ items[j].availableUntil < now

\* C16: listActive returns exactly the items with isActive, availableUntil
\* after now and quantityAvailable >= 1, and every item it returns passes the
\* checks of a reserve of one unit made at the same instant.
C16_ListedItemsReservable ==
    [][ListActive
          => /\ resp'.n = Cardinality(
                    {i \in ItemIds : /\ items'[i].state = "live"
                                     /\ items'[i].isActive
                                     /\ items'[i].availableUntil > now
                                     /\ items'[i].quantityAvailable >= 1})
             /\ \A i \in ActiveSelection(items', now) :
                   ReserveCheck(items'[i], 1, now) = 201]_vars

\* C17: completing a reserved claim of quantity q raises totalMealsSaved by
\* exactly 1 and totalSavings by exactly q * (originalPrice - discountedPrice);
\* with no claimed claim both figures are 0; GET /api/stats changes no row.
C17_StatsAfterComplete ==
    [][/\ \A c \in claims :
             (Complete(c.id) /\ c.status = "reserved")
                 => /\ getCampusStats(items', claims').totalMealsSaved
                          = getCampusStats(items, claims).totalMealsSaved + 1
                    /\ getCampusStats(items', claims').totalSavings
                          = getCampusStats(items, claims).totalSavings
                              + c.quantityClaimed
                                  * (items[c.foodItemId].originalPrice
                                       - items[c.foodItemId].discountedPrice)
       /\ Stats
             => /\ UNCHANGED <<items, claims, donations>>
                /\ (\A c \in claims : c.status # "claimed")
                      => (resp'.n = 0 /\ resp'.total = 0)]_vars

\* the figures have been read after a claim of two units was reserved,
\* verified and completed: one meal, twice the price difference
C17_Witness ==
    /\ resp.op = "stats" /\ resp.n = 1
    /\ resp.total = 2 * (ItemPrices[1].originalPrice - ItemPrices[1].discountedPrice)
    /\ \E c \in claims : /\ c.status = "claimed" /\ c.quantityClaimed = 2
                         /\ c.claimedAt <= c.expiresAt

\* C18: verify on a claim with status reserved and now after expiresAt answers
\* failure and sets the claim's status to expired.
C18_VerifyExpires ==
    [][\A c \in claims :
          (/\ Verify(c.claimCode)
           /\ c.status = "reserved" /\ now > c.expiresAt)
              => /\ ~resp'.ok
                 /\ \E d \in claims' : d.id = c.id /\ d.status = "expired"]_vars

\* C19: complete on a claim with now after expiresAt fails and leaves the
\* claim as it was, and every claimed claim has claimedAt <= expiresAt.
C19_NoLateComplete ==
    [][/\ \A c \in claims :
             (Complete(c.id) /\ now > c.expiresAt)
                 => (resp'.status # 200 /\ c \in claims')
       /\ \A d \in claims' :
             d.status = "claimed" => d.claimedAt <= d.expiresAt]_vars

\* C20: the first verify on its code, or the first listing of claims, made
\* after the expiresAt of a reserved claim leaves that claim expired.
C20_ExpiredOnNextRead ==
    [][\A c \in claims :
          (/\ c.status = "reserved" /\ now > c.expiresAt
           /\ \/ Verify(c.claimCode)
              \/ ListByUser(c.userId)
              \/ ListActiveReservations)
              => \E d \in claims' : d.id = c.id /\ d.status = "expired"]_vars

\* C21: a claim row and the decrement of its item are one step: in every
\* state a request can read, the quantityAvailable of an item staff did not
\* edit is its stock less the quantityClaimed of the claim rows it has.
C21_ClaimAndDecrementAtomic ==
    \A i \in ItemIds :
        (items[i].state = "live" /\ ~touched[i])
            => items[i].quantityAvailable
                  = stocked[i] - SumQuantity({c \in claims : c.foodItemId = i})

\* C22: transferExpired creates a donation for exactly the items that, after
\* its sweep, are inactive, past their deadline, in stock and without a
\* donation; each new donation is available and carries the item's
\* quantityAvailable; the count returned is the number of donations created.
C22_TransferExactly ==
    [][TransferExpired
          => LET due == {i \in ItemIds :
                            /\ items'[i].state = "live" /\ ~items'[i].isActive
                            /\ items'[i].availableUntil < now
                            /\ items'[i].quantityAvailable > 0
                            /\ \A d \in donations : d.foodItemId # i}
                 created == donations' \ donations
             IN /\ donations \subseteq donations'
                /\ {d.foodItemId : d \in created} = due
                /\ Cardinality(created) = Cardinality(due)
                /\ \A d \in created :
                      /\ d.status = "available"
                      /\ d.quantityDonated = items'[d.foodItemId].quantityAvailable
                /\ resp'.n = Cardinality(created)]_vars

\* a transfer has created the donation of one expired item and none for the
\* other, expired with no stock
C22_Witness ==
    /\ resp.op = "transferExpired" /\ resp.n = 1
    /\ \E i, j \in ItemIds :
          /\ \E d \in donations : /\ d.foodItemId = i /\ d.status = "available"
                                  /\ d.quantityDonated = MaxQty
          /\ items[j].state = "live" /\ ~items[j].isActive
          /\ items[j].availableUntil < now /\ items[j].quantityAvailable = 0
          /\ \A d \in donations : d.foodItemId # j

\* C23: the sweeper returns the number of items that were active and past
\* their deadline before it ran, and a run that directly follows another at
\* the same time changes no item and returns 0.
C23_SweepIdempotent ==
    [][Sweep
          => /\ resp'.n = Cardinality({i \in ItemIds :
                                          /\ items[i].state = "live"
                                          /\ items[i].isActive
                                          /\ items[i].availableUntil < now})
             /\ resp.op = "sweep" => (items' = items /\ resp'.n = 0)]_vars

\* a sweep has found nothing new to deactivate over a catalog whose items are
\* all expired and inactive
C23_Witness ==
    /\ resp.op = "sweep" /\ resp.n = 0
    /\ \A i \in ItemIds : /\ items[i].state = "live" /\ ~items[i].isActive
                          /\ items[i].availableUntil < now
                          /\ items[i].quantityAvailable > 0

\* C24: in every reachable state, a delete interleaved with reserve and
\* transfer requests included, every claim and every donation references an
\* item that exists; so none references an item whose delete has completed.
C24_ReferencesExist ==
    /\ \A c \in claims : items[c.foodItemId].state = "live"
    /\ \A d \in donations : items[d.foodItemId].state = "live"

\* a delete has completed on an item that had claims and a donation
C24_Witness ==
    /\ resp.op = "deleteFoodItem" /\ resp.status = 204
    /\ \E i \in ItemIds : items[i].state = "deleted"
    /\ nextClaimId > 1 /\ nextDonationId > 1
    /\ claims = {} /\ donations = {}

\* C25: in every reachable state no two claims have the same claimCode.
C25_ClaimCodeUnique ==
    \A c1, c2 \in claims : c1.claimCode = c2.claimCode => c1 = c2

\* a reserve has been refused at the insert of its claim while a claim holds
\* a code, every request having finished
C25_Witness ==
    /\ AllIdle
    /\ resp.op = "reserve" /\ resp.status = 500
    /\ claims # {}
    /\ \A i \in ItemIds : items[i].state # "deleted"

\* C26: a reserve that passes the availability checks and whose generated
\* code is the code of an existing claim still succeeds: it is answered 201,
\* one claim is created under another code and the quantity is decremented
\* once.
C26_CollisionRetried ==
    [][\A u \in Students, i \in ItemIds, q \in Quantities, code \in Codes :
          (/\ Reserve(u, i, q, code)
           /\ ReserveCheck(getFoodItemById(i), q, now) = 201
           /\ \E c \in claims : c.claimCode = code)
              => /\ resp'.status = 201
                 /\ \E c \in claims' : /\ c \notin claims
                                       /\ claims' = claims \cup {c}
                                       /\ c.claimCode # code
                 /\ items' = [items EXCEPT ![i].quantityAvailable = @ - q]]_vars

\* C27: an update or delete request whose caller has no identity, is not
\* staff, or is not the creator of the item leaves the item, its claims and
\* its donation unchanged.
C27_OnlyOwningStaffEdits ==
    [][\A u \in Callers, i \in ItemIds :
          (/\ \/ \E upd \in SweepUpdates : UpdateFoodItem(u, i, upd)
              \/ DeleteFoodItem(u, i)
              \/ DeleteFoodItemOpen(u, i)
           /\ ~(u # Anonymous /\ Role(u) = "staff" /\ items[i].createdBy = u))
              => UNCHANGED <<items, claims, donations>>]_vars

\* C28: a reserve whose quantityClaimed is zero or negative is not answered
\* 201, and every reserve answered 201 leaves the item with less
\* quantityAvailable than it had.
C28_ReserveDecreases ==
    [][\A u \in Students, i \in ItemIds, q \in Quantities, code \in Codes :
          Reserve(u, i, q, code)
              => /\ q <= 0 => resp'.status # 201
                 /\ resp'.status = 201
                       => items'[i].quantityAvailable
                             < items[i].quantityAvailable]_vars

\* C29: while an item has a donation row, its quantityAvailable is the
\* donation's quantityDonated, whatever updates, sweeps and reserves follow
\* the transfer.
C29_DonatedStockKept ==
    \A d \in donations :
        items[d.foodItemId].quantityAvailable = d.quantityDonated

\* C30: a request that finishes, other than a logout, leaves the user in a
\* stored session that carries one, and a request other than a login puts
\* no user into a stored session that has none: a login is not lost to a
\* concurrent request and does not come back after a logout.
C30_LoginNotLost ==
    [][\A p \in Procs :
          (SessionFinish(p) /\ sessions[local[p].sessionId].stored)
              => LET sid == local[p].sessionId IN
                 /\ (/\ local[p].request # "logout"
                     /\ sessions[sid].user # NoSession.user)
                        => sessions'[sid].user = sessions[sid].user
                 /\ (/\ local[p].request # "login"
                     /\ sessions[sid].user = NoSession.user)
                        => sessions'[sid].user = NoSession.user]_vars

====
